---- MODULE Spec2Model ----
(***************************************************************************)
(* A model of UnsafeList<T> (Linked-List/src/unsafe_list.rs): a singly     *)
(* linked list whose nodes live on the heap and are referenced through raw *)
(* pointers.  The heap is modelled explicitly: a node is an address, Box   *)
(* allocation hands out an address that is not in use, Box::from_raw       *)
(* followed by the drop of the box gives it back.  SafeList<T>             *)
(* (Linked-List/src/safe.rs), the same list built from owned boxes, is     *)
(* modelled as the nested Option<Box<Node<T>>> value it is.                *)
(***************************************************************************)
EXTENDS Integers, Sequences, FiniteSets, TLC

\* Number of heap addresses a node can be allocated at.
MaxNodes == 3

\* Number of push calls counted on one list.
MaxOps == 5

\* Number of values handed to the lists of the client that keeps account.
MaxKept == 4

\* The list variables of the client program.
Lists == {"a", "b"}

\* The list variables of a program that appends twice: a third one, c.
Chains == Lists \cup {"c"}

NULL == 0
Addr == 1..MaxNodes

\* The element type T is generic and the list never inspects a value: two
\* values that can be told apart stand for T.
Values == {"x", "y"}

\* Indices handed to remove: every position of a full list, and past the end.
Indices == 0..MaxNodes

\* The iterator variables of the client program.
Iters == {"i", "j"}

\* An iterator variable that holds no iterator.
NoIter == [kind |-> "none", list |-> "", current |-> 0, out |-> <<>>, f |-> <<>>]

\* Option<T>: None is the empty sequence, Some(v) the one-element sequence.
None == <<>>

Some(v) == <<v>>

\* What released storage holds.  The code never reads it.
Poison == [value |-> "freed", next |-> NULL]

VARIABLES
    mem,    \* mem[p]: the Node stored at address p (value, next)
    alloc,  \* addresses handed out by Box::new and not yet released
    head,   \* head[l]: field head of list variable l
    tail,   \* tail[l]: field tail of list variable l
    len,    \* len[l]:  field len of list variable l
    kind,   \* kind[l]: "none" (no value) or "list" (an UnsafeList)
    fault,  \* faults met so far: "double_free", "use_after_free", "len_underflow", "diverge"
    op,     \* the last operation: name, list, argument, returned value, nodes released
    safe,   \* the SafeList variable of the client: None (no value) or Some(list)
    pushes, \* push_front and push_back calls made on the counted list since new()
    pops,   \* pop_front calls on it that returned Some
    its,    \* its[i]: iterator variable i of the client: kind, list, current, out, f
    inserted, \* inserted[v]: how many times value v was put into a list
    returned  \* returned[v]: how many times pop_front or remove returned v

vars == <<mem, alloc, head, tail, len, kind, fault, op, safe, pushes, pops,
          its, inserted, returned>>

\* The program state as one value; the operations below are functions on it.
\* Field ret holds the value the operation returns, field freed the number of
\* boxes it has dropped.
St ==
    [mem |-> mem, alloc |-> alloc, head |-> head, tail |-> tail, len |-> len,
     kind |-> kind, fault |-> fault, ret |-> None, freed |-> 0]

\* A dereference of p: undefined behaviour when p is not a live node.
Deref(s, p) ==
    [s EXCEPT !.fault = @ \cup (IF p \in s.alloc THEN {} ELSE {"use_after_free"})]

\* Box::new(node) followed by Box::into_raw; p is the address the allocator returns.
box_new(s, p, node) ==
    [s EXCEPT !.mem[p] = node, !.alloc = @ \cup {p}]

\* Box::from_raw(p) and the drop of that box: the storage at p is released.
box_drop(s, p) ==
    [s EXCEPT !.alloc = @ \ {p},
              !.mem[p] = Poison,
              !.freed = @ + 1,
              !.fault = @ \cup (IF p \in s.alloc THEN {} ELSE {"double_free"})]

\* (*p).next = x
store_next(s, p, x) ==
    [Deref(s, p) EXCEPT !.mem[p].next = x]

\* self.len -= 1 on a usize.
len_dec(s, l) ==
    IF s.len[l] = 0
    THEN [s EXCEPT !.fault = @ \cup {"len_underflow"}]
    ELSE [s EXCEPT !.len[l] = @ - 1]

new(s, l) ==
    [s EXCEPT !.head[l] = NULL, !.tail[l] = NULL, !.len[l] = 0,
              !.kind[l] = "list", !.ret = None]

is_empty(s, l) == s.head[l] = NULL

\* push_front that never sets tail.
push_front_NoTail(s, l, value, p) ==
    LET s1 == box_new(s, p, [value |-> value, next |-> s.head[l]])
    IN  [s1 EXCEPT !.head[l] = p, !.len[l] = @ + 1, !.ret = None]

push_front(s, l, value, p) ==
    LET s1 == box_new(s, p, [value |-> value, next |-> s.head[l]])
        s2 == IF s1.head[l] = NULL THEN [s1 EXCEPT !.tail[l] = p] ELSE s1
    IN  [s2 EXCEPT !.head[l] = p, !.len[l] = @ + 1, !.ret = None]

\* push_back that forgets `self.len += 1`.
push_back_NoLen(s, l, value, p) ==
    LET s1 == box_new(s, p, [value |-> value, next |-> NULL])
        s2 == IF s1.tail[l] # NULL
              THEN store_next(s1, s1.tail[l], p)
              ELSE [s1 EXCEPT !.head[l] = p]
    IN  [s2 EXCEPT !.tail[l] = p, !.ret = None]

\* push_back that does not link the new node behind the old tail.
push_back_NoLink(s, l, value, p) ==
    LET s1 == box_new(s, p, [value |-> value, next |-> NULL])
        s2 == IF s1.tail[l] # NULL
              THEN s1
              ELSE [s1 EXCEPT !.head[l] = p]
    IN  [s2 EXCEPT !.tail[l] = p, !.len[l] = @ + 1, !.ret = None]

push_back(s, l, value, p) ==
    LET s1 == box_new(s, p, [value |-> value, next |-> NULL])
        s2 == IF s1.tail[l] # NULL
              THEN store_next(s1, s1.tail[l], p)
              ELSE [s1 EXCEPT !.head[l] = p]
    IN  [s2 EXCEPT !.tail[l] = p, !.len[l] = @ + 1, !.ret = None]

\* pop_front that forgets to clear tail when the list becomes empty.
pop_front_KeepsTail(s, l) ==
    IF s.head[l] = NULL
    THEN [s EXCEPT !.ret = None]
    ELSE LET head_ptr == s.head[l]
             node == s.mem[head_ptr]
             s1 == [s EXCEPT !.head[l] = node.next]
             s3 == len_dec(s1, l)
         IN  [box_drop(s3, head_ptr) EXCEPT !.ret = Some(node.value)]

\* pop_front that moves the value out and never rebuilds the Box: the node
\* is not released.
pop_front_NoFree(s, l) ==
    IF s.head[l] = NULL
    THEN [s EXCEPT !.ret = None]
    ELSE LET head_ptr == s.head[l]
             node == s.mem[head_ptr]
             s1 == [s EXCEPT !.head[l] = node.next]
             s2 == IF s1.head[l] = NULL THEN [s1 EXCEPT !.tail[l] = NULL] ELSE s1
             s3 == len_dec(s2, l)
         IN  [s3 EXCEPT !.ret = Some(node.value)]

\* pop_front that decrements len before it looks at head.
pop_front_DecFirst(s, l) ==
    LET s0 == len_dec(s, l)
    IN  IF s0.head[l] = NULL
        THEN [s0 EXCEPT !.ret = None]
        ELSE LET head_ptr == s0.head[l]
                 node == s0.mem[head_ptr]
                 s1 == [s0 EXCEPT !.head[l] = node.next]
                 s2 == IF s1.head[l] = NULL THEN [s1 EXCEPT !.tail[l] = NULL] ELSE s1
             IN  [box_drop(s2, head_ptr) EXCEPT !.ret = Some(node.value)]

\* pop_front that forgets `self.len -= 1`.
pop_front_NoLenDec(s, l) ==
    IF s.head[l] = NULL
    THEN [s EXCEPT !.ret = None]
    ELSE LET head_ptr == s.head[l]
             node == s.mem[head_ptr]
             s1 == [s EXCEPT !.head[l] = node.next]
             s2 == IF s1.head[l] = NULL THEN [s1 EXCEPT !.tail[l] = NULL] ELSE s1
         IN  [box_drop(s2, head_ptr) EXCEPT !.ret = Some(node.value)]

pop_front(s, l) ==
    IF s.head[l] = NULL
    THEN [s EXCEPT !.ret = None]
    ELSE LET head_ptr == s.head[l]
             node == s.mem[head_ptr]
             s1 == [s EXCEPT !.head[l] = node.next]
             s2 == IF s1.head[l] = NULL THEN [s1 EXCEPT !.tail[l] = NULL] ELSE s1
             s3 == len_dec(s2, l)
         IN  [box_drop(s3, head_ptr) EXCEPT !.ret = Some(node.value)]

peek_front(s, l) ==
    IF s.head[l] = NULL
    THEN [s EXCEPT !.ret = None]
    ELSE [Deref(s, s.head[l]) EXCEPT !.ret = Some(s.mem[s.head[l]].value)]

\* peek_front_mut that hands out the value of the tail node.
peek_front_mut_Tail(s, l, v) ==
    IF s.head[l] = NULL
    THEN [s EXCEPT !.ret = None]
    ELSE [Deref(s, s.tail[l]) EXCEPT !.mem[s.tail[l]].value = v,
                                     !.ret = Some(s.mem[s.tail[l]].value)]

\* if let Some(value) = list.peek_front_mut() { *value = v }
peek_front_mut(s, l, v) ==
    IF s.head[l] = NULL
    THEN [s EXCEPT !.ret = None]
    ELSE [Deref(s, s.head[l]) EXCEPT !.mem[s.head[l]].value = v,
                                     !.ret = Some(s.mem[s.head[l]].value)]

\* clear with `if` for `while`: a single pop.
clear_Once(s, l) ==
    [pop_front(s, l) EXCEPT !.ret = None]

RECURSIVE clear(_, _)
clear(s, l) ==
    LET s1 == pop_front(s, l)
    IN  IF s1.ret # None THEN clear(s1, l) ELSE s1

\* The loop of reverse without `prev = Some(curr_ptr)`.
RECURSIVE reverse_loop_NoPrev(_, _, _)
reverse_loop_NoPrev(s, prev, current) ==
    IF current = NULL
    THEN s
    ELSE LET next == s.mem[current].next
         IN  reverse_loop_NoPrev(store_next(s, current, prev), prev, next)

RECURSIVE reverse_loop(_, _, _)
reverse_loop(s, prev, current) ==
    IF current = NULL
    THEN s
    ELSE LET next == s.mem[current].next
         IN  reverse_loop(store_next(s, current, prev), current, next)

\* reverse that starts with prev = self.head where the code has None: the
\* former head node gets itself as next.
reverse_SelfLink(s, l) ==
    LET new_head == s.tail[l]
        s1 == reverse_loop(s, s.head[l], s.head[l])
    IN  [s1 EXCEPT !.tail[l] = s.head[l], !.head[l] = new_head, !.ret = None]

\* reverse that forgets `self.tail = self.head`.
reverse_KeepsTail(s, l) ==
    LET new_head == s.tail[l]
        s1 == reverse_loop(s, NULL, s.head[l])
    IN  [s1 EXCEPT !.head[l] = new_head, !.ret = None]

reverse(s, l) ==
    LET new_head == s.tail[l]
        s1 == reverse_loop(s, NULL, s.head[l])
    IN  [s1 EXCEPT !.tail[l] = s.head[l], !.head[l] = new_head, !.ret = None]

\* The walk of remove: the cursor after i steps, its predecessor, and whether
\* a node that is not live was read on the way.
RECURSIVE remove_walk(_, _, _, _, _, _)
remove_walk(s, i, index, current, prev, bad) ==
    IF i < index /\ current # NULL
    THEN remove_walk(s, i + 1, index, s.mem[current].next, current,
                     bad \/ current \notin s.alloc)
    ELSE [prev |-> prev, current |-> current, bad |-> bad]

\* remove that forgets to move tail when the last node goes.
remove_KeepsTail(s, l, index) ==
    IF index >= s.len[l]
    THEN [s EXCEPT !.ret = None]
    ELSE IF index = 0
    THEN pop_front(s, l)
    ELSE LET w == remove_walk(s, 0, index, s.head[l], NULL, FALSE)
         IN  IF w.prev # NULL /\ w.current # NULL
             THEN LET curr == s.mem[w.current]
                      s1 == store_next(s, w.prev, curr.next)
                      s3 == len_dec(s1, l)
                  IN  [box_drop(s3, w.current) EXCEPT !.ret = Some(curr.value)]
             ELSE [s EXCEPT !.ret = None]

\* remove that releases the node without unlinking it from its predecessor.
remove_NoRelink(s, l, index) ==
    IF index >= s.len[l]
    THEN [s EXCEPT !.ret = None]
    ELSE IF index = 0
    THEN pop_front(s, l)
    ELSE LET w == remove_walk(s, 0, index, s.head[l], NULL, FALSE)
         IN  IF w.prev # NULL /\ w.current # NULL
             THEN LET curr == s.mem[w.current]
                      s2 == IF curr.next = NULL
                            THEN [s EXCEPT !.tail[l] = w.prev]
                            ELSE s
                      s3 == len_dec(s2, l)
                  IN  [box_drop(s3, w.current) EXCEPT !.ret = Some(curr.value)]
             ELSE [s EXCEPT !.ret = None]

\* remove whose walk makes one step too many (`i <= index`).
remove_OffByOne(s, l, index) ==
    IF index >= s.len[l]
    THEN [s EXCEPT !.ret = None]
    ELSE IF index = 0
    THEN pop_front(s, l)
    ELSE LET w == remove_walk(s, 0, index + 1, s.head[l], NULL, FALSE)
         IN  IF w.prev # NULL /\ w.current # NULL
             THEN LET curr == s.mem[w.current]
                      s1 == store_next(s, w.prev, curr.next)
                      s2 == IF curr.next = NULL
                            THEN [s1 EXCEPT !.tail[l] = w.prev]
                            ELSE s1
                      s3 == len_dec(s2, l)
                  IN  [box_drop(s3, w.current) EXCEPT !.ret = Some(curr.value)]
             ELSE [s EXCEPT !.ret = None]

\* remove that clamps an index past the end to the last position.
remove_Clamp(s, l, index) ==
    IF s.len[l] = 0
    THEN [s EXCEPT !.ret = None]
    ELSE LET idx == IF index >= s.len[l] THEN s.len[l] - 1 ELSE index
         IN  IF idx = 0
             THEN pop_front(s, l)
             ELSE LET w == remove_walk(s, 0, idx, s.head[l], NULL, FALSE)
                  IN  IF w.prev # NULL /\ w.current # NULL
                      THEN LET curr == s.mem[w.current]
                               s1 == store_next(s, w.prev, curr.next)
                               s2 == IF curr.next = NULL
                                     THEN [s1 EXCEPT !.tail[l] = w.prev]
                                     ELSE s1
                               s3 == len_dec(s2, l)
                           IN  [box_drop(s3, w.current) EXCEPT !.ret = Some(curr.value)]
                      ELSE [s EXCEPT !.ret = None]

\* remove that sets tail to the successor of the removed node (none) when
\* the last node goes.
remove_TailNext(s, l, index) ==
    IF index >= s.len[l]
    THEN [s EXCEPT !.ret = None]
    ELSE IF index = 0
    THEN pop_front(s, l)
    ELSE LET w == remove_walk(s, 0, index, s.head[l], NULL, FALSE)
             s0 == [s EXCEPT !.fault = @ \cup (IF w.bad THEN {"use_after_free"} ELSE {})]
         IN  IF w.prev # NULL /\ w.current # NULL
             THEN LET curr == s0.mem[w.current]
                      s1 == store_next(s0, w.prev, curr.next)
                      s2 == IF curr.next = NULL
                            THEN [s1 EXCEPT !.tail[l] = curr.next]
                            ELSE s1
                      s3 == len_dec(s2, l)
                  IN  [box_drop(s3, w.current) EXCEPT !.ret = Some(curr.value)]
             ELSE [s0 EXCEPT !.ret = None]

\* remove without the `index == 0` branch: the walk makes no step, finds no
\* predecessor and nothing is removed.
remove_NoZero(s, l, index) ==
    IF index >= s.len[l]
    THEN [s EXCEPT !.ret = None]
    ELSE LET w == remove_walk(s, 0, index, s.head[l], NULL, FALSE)
             s0 == [s EXCEPT !.fault = @ \cup (IF w.bad THEN {"use_after_free"} ELSE {})]
         IN  IF w.prev # NULL /\ w.current # NULL
             THEN LET curr == s0.mem[w.current]
                      s1 == store_next(s0, w.prev, curr.next)
                      s2 == IF curr.next = NULL
                            THEN [s1 EXCEPT !.tail[l] = w.prev]
                            ELSE s1
                      s3 == len_dec(s2, l)
                  IN  [box_drop(s3, w.current) EXCEPT !.ret = Some(curr.value)]
             ELSE [s0 EXCEPT !.ret = None]

\* remove that returns a copy of the value and leaves the node in the list.
remove_Copy(s, l, index) ==
    IF index >= s.len[l]
    THEN [s EXCEPT !.ret = None]
    ELSE IF index = 0
    THEN pop_front(s, l)
    ELSE LET w == remove_walk(s, 0, index, s.head[l], NULL, FALSE)
             s0 == [s EXCEPT !.fault = @ \cup (IF w.bad THEN {"use_after_free"} ELSE {})]
         IN  IF w.prev # NULL /\ w.current # NULL
             THEN [s0 EXCEPT !.ret = Some(s0.mem[w.current].value)]
             ELSE [s0 EXCEPT !.ret = None]

remove(s, l, index) ==
    IF index >= s.len[l]
    THEN [s EXCEPT !.ret = None]
    ELSE IF index = 0
    THEN pop_front(s, l)
    ELSE LET w == remove_walk(s, 0, index, s.head[l], NULL, FALSE)
             s0 == [s EXCEPT !.fault = @ \cup (IF w.bad THEN {"use_after_free"} ELSE {})]
         IN  IF w.prev # NULL /\ w.current # NULL
             THEN LET curr == s0.mem[w.current]
                      s1 == store_next(s0, w.prev, curr.next)
                      s2 == IF curr.next = NULL
                            THEN [s1 EXCEPT !.tail[l] = w.prev]
                            ELSE s1
                      s3 == len_dec(s2, l)
                  IN  [box_drop(s3, w.current) EXCEPT !.ret = Some(curr.value)]
             ELSE [s0 EXCEPT !.ret = None]

\* list.iter().collect(): the values Iter::next yields until it returns None.
\* A traversal that has made more steps than there are addresses is in a cycle
\* and never ends; it is cut there and recorded.
RECURSIVE iter_collect(_, _, _, _)
iter_collect(s, current, acc, fuel) ==
    IF current = NULL
    THEN [s EXCEPT !.ret = acc]
    ELSE IF fuel = 0
    THEN [s EXCEPT !.ret = acc, !.fault = @ \cup {"diverge"}]
    ELSE iter_collect(Deref(s, current), s.mem[current].next,
                      Append(acc, s.mem[current].value), fuel - 1)

iter(s, l) == iter_collect(s, s.head[l], <<>>, MaxNodes + 1)

\* impl Drop: clear, after which the value is gone.
drop(s, l) ==
    [clear(s, l) EXCEPT !.kind[l] = "none", !.ret = None]

\* append that does not reset `other` after the splice.
append_body_NoReset(s, l, other) ==
    IF is_empty(s, other)
    THEN s
    ELSE IF is_empty(s, l)
    THEN [s EXCEPT !.head[l] = s.head[other], !.head[other] = s.head[l],
                   !.tail[l] = s.tail[other], !.tail[other] = s.tail[l],
                   !.len[l] = s.len[other], !.len[other] = s.len[l]]
    ELSE IF s.tail[l] # NULL
    THEN [store_next(s, s.tail[l], s.head[other])
             EXCEPT !.tail[l] = s.tail[other],
                    !.len[l] = @ + s.len[other]]
    ELSE s

\* append that, on an empty self, copies the fields of `other` for swapping them.
append_body_Assign(s, l, other) ==
    IF is_empty(s, other)
    THEN s
    ELSE IF is_empty(s, l)
    THEN [s EXCEPT !.head[l] = s.head[other],
                   !.tail[l] = s.tail[other],
                   !.len[l] = s.len[other]]
    ELSE LET s1 == IF s.tail[l] # NULL
                   THEN [store_next(s, s.tail[l], s.head[other])
                            EXCEPT !.tail[l] = s.tail[other],
                                   !.len[l] = @ + s.len[other]]
                   ELSE s
         IN  [s1 EXCEPT !.head[other] = NULL, !.tail[other] = NULL, !.len[other] = 0]

\* append that forgets `self.len += other.len`.
append_body_NoLen(s, l, other) ==
    IF is_empty(s, other)
    THEN s
    ELSE IF is_empty(s, l)
    THEN [s EXCEPT !.head[l] = s.head[other], !.head[other] = s.head[l],
                   !.tail[l] = s.tail[other], !.tail[other] = s.tail[l],
                   !.len[l] = s.len[other], !.len[other] = s.len[l]]
    ELSE LET s1 == IF s.tail[l] # NULL
                   THEN [store_next(s, s.tail[l], s.head[other])
                            EXCEPT !.tail[l] = s.tail[other]]
                   ELSE s
         IN  [s1 EXCEPT !.head[other] = NULL, !.tail[other] = NULL, !.len[other] = 0]

\* append that, on an empty self, swaps head and tail with `other` and
\* forgets to swap len.
append_body_SwapNoLen(s, l, other) ==
    IF is_empty(s, other)
    THEN s
    ELSE IF is_empty(s, l)
    THEN [s EXCEPT !.head[l] = s.head[other], !.head[other] = s.head[l],
                   !.tail[l] = s.tail[other], !.tail[other] = s.tail[l]]
    ELSE LET s1 == IF s.tail[l] # NULL
                   THEN [store_next(s, s.tail[l], s.head[other])
                            EXCEPT !.tail[l] = s.tail[other],
                                   !.len[l] = @ + s.len[other]]
                   ELSE s
         IN  [s1 EXCEPT !.head[other] = NULL, !.tail[other] = NULL, !.len[other] = 0]

\* The body of append, up to the point where `other` goes out of scope.
append_body(s, l, other) ==
    IF is_empty(s, other)
    THEN s
    ELSE IF is_empty(s, l)
    THEN [s EXCEPT !.head[l] = s.head[other], !.head[other] = s.head[l],
                   !.tail[l] = s.tail[other], !.tail[other] = s.tail[l],
                   !.len[l] = s.len[other], !.len[other] = s.len[l]]
    ELSE LET s1 == IF s.tail[l] # NULL
                   THEN [store_next(s, s.tail[l], s.head[other])
                            EXCEPT !.tail[l] = s.tail[other],
                                   !.len[l] = @ + s.len[other]]
                   ELSE s
         IN  [s1 EXCEPT !.head[other] = NULL, !.tail[other] = NULL, !.len[other] = 0]

\* append consumes `other`: it is dropped when append returns.
append(s, l, other) ==
    drop(append_body(s, l, other), other)

\* UnsafeList::from(vec): push_back of each item; ps[i] is the address the
\* i-th allocation returns.
RECURSIVE from_loop(_, _, _, _, _)
from_loop(s, l, vec, ps, i) ==
    IF i > Len(vec)
    THEN s
    ELSE from_loop(push_back(s, l, vec[i], ps[i]), l, vec, ps, i + 1)

from(s, l, vec, ps) ==
    from_loop(new(s, l), l, vec, ps, 1)

\* list.into_iter().collect(): IntoIter::next is pop_front; the values it
\* yields until it returns None.
RECURSIVE into_iter_loop(_, _, _)
into_iter_loop(s, l, acc) ==
    LET s1 == pop_front(s, l)
    IN  IF s1.ret # None
        THEN into_iter_loop(s1, l, acc \o s1.ret)
        ELSE [s1 EXCEPT !.ret = acc]

\* The iterator owns the list and is dropped when the loop is over.
into_iter_collect(s, l) ==
    LET s1 == into_iter_loop(s, l, <<>>)
    IN  [drop(s1, l) EXCEPT !.ret = s1.ret]

----------------------------------------------------------------------------
\* The iterators, one call of next() at a time.  An iterator is the record
\* [kind, list, current, out, f]: list is the list it borrows (Iter, IterMut)
\* or owns (IntoIter), current its cursor, out the values it has yielded so
\* far, f what the loop body of the client writes through the reference an
\* IterMut yields.  An operation on an iterator gives the program state s and
\* the iterator it.

\* iter() that starts at tail.
Iter_new_Tail(s, l) ==
    [kind |-> "iter", list |-> l, current |-> s.tail[l], out |-> <<>>, f |-> <<>>]

\* UnsafeList::iter(&self): Iter { current: self.head }
Iter_new(s, l) ==
    [kind |-> "iter", list |-> l, current |-> s.head[l], out |-> <<>>, f |-> <<>>]

\* Iter::next
Iter_next(s, it) ==
    IF it.current = NULL
    THEN [s |-> [s EXCEPT !.ret = None], it |-> it]
    ELSE LET curr == it.current
             node == s.mem[curr]
         IN  [s |-> [Deref(s, curr) EXCEPT !.ret = Some(node.value)],
              it |-> [it EXCEPT !.current = node.next, !.out = Append(@, node.value)]]

\* UnsafeList::iter_mut(&mut self): IterMut { current: self.head }
IterMut_new(s, l, f) ==
    [kind |-> "iter_mut", list |-> l, current |-> s.head[l], out |-> <<>>, f |-> f]

\* IterMut::next that hands out the value of the head node each time.
IterMut_next_Head(s, it) ==
    IF it.current = NULL
    THEN [s |-> [s EXCEPT !.ret = None], it |-> it]
    ELSE LET curr == it.current
             node == s.mem[curr]
             first == s.head[it.list]
         IN  [s |-> [Deref(s, curr) EXCEPT !.mem[first].value = it.f[s.mem[first].value],
                                           !.ret = Some(s.mem[first].value)],
              it |-> [it EXCEPT !.current = node.next,
                                !.out = Append(@, s.mem[first].value)]]

\* IterMut::next, and the write `*value = f(*value)` of the loop body.
IterMut_next(s, it) ==
    IF it.current = NULL
    THEN [s |-> [s EXCEPT !.ret = None], it |-> it]
    ELSE LET curr == it.current
             node == s.mem[curr]
         IN  [s |-> [Deref(s, curr) EXCEPT !.mem[curr].value = it.f[node.value],
                                           !.ret = Some(node.value)],
              it |-> [it EXCEPT !.current = node.next, !.out = Append(@, node.value)]]

\* for value in list.iter_mut() { *value = f(*value) }
RECURSIVE iter_mut_loop(_)
iter_mut_loop(r) ==
    LET r1 == IterMut_next(r.s, r.it)
    IN  IF r1.s.ret = None THEN r1.s ELSE iter_mut_loop(r1)

iter_mut(s, l, f) ==
    iter_mut_loop([s |-> s, it |-> IterMut_new(s, l, f)])

\* UnsafeList::into_iter(self): IntoIter(self); the list is now inside the
\* iterator.
IntoIter_new(s, l) ==
    [s |-> [s EXCEPT !.kind[l] = "into_iter", !.ret = None],
     it |-> [kind |-> "into_iter", list |-> l, current |-> NULL, out |-> <<>>, f |-> <<>>]]

\* IntoIter::next that yields the front element and leaves it in the list.
IntoIter_next_Peek(s, it) ==
    LET s1 == peek_front(s, it.list)
    IN  [s |-> s1, it |-> [it EXCEPT !.out = @ \o s1.ret]]

\* IntoIter::next: self.0.pop_front()
IntoIter_next(s, it) ==
    LET s1 == pop_front(s, it.list)
    IN  [s |-> s1, it |-> [it EXCEPT !.out = @ \o s1.ret]]

\* An IntoIter that goes away without dropping the list it holds.
IntoIter_drop_Forget(s, it) ==
    [s |-> [s EXCEPT !.kind[it.list] = "none", !.ret = None], it |-> NoIter]

\* The drop of an IntoIter drops the list it holds.
IntoIter_drop(s, it) ==
    [s |-> drop(s, it.list), it |-> NoIter]

----------------------------------------------------------------------------
\* SafeList<T> (safe.rs).  A list is the value [head, len]; head is an
\* Option<Box<Node<T>>>, a node the record [value, next] with next again an
\* Option<Box<Node<T>>>.  Boxes are owned, so a list is a value and the
\* operations are functions on it.

safe_new == [head |-> None, len |-> 0]

\* next: self.head.take(); self.head = Some(new_node); self.len += 1
safe_push_front(list, value) ==
    [head |-> Some([value |-> value, next |-> list.head]), len |-> list.len + 1]

\* self.head.take().map(|head| ...): the list left and the value returned.
safe_pop_front(list) ==
    IF list.head = None
    THEN [list |-> list, ret |-> None]
    ELSE LET node == list.head[1]
         IN  [list |-> [head |-> node.next, len |-> list.len - 1],
              ret |-> Some(node.value)]

\* Iter::next until it returns None: the values yielded.
RECURSIVE safe_iter_collect(_, _)
safe_iter_collect(next, acc) ==
    IF next = None
    THEN acc
    ELSE safe_iter_collect(next[1].next, Append(acc, next[1].value))

safe_iter(list) == safe_iter_collect(list.head, <<>>)

\* IntoIter::next is pop_front: the values yielded until it returns None.
RECURSIVE safe_into_iter_loop(_, _)
safe_into_iter_loop(list, acc) ==
    LET r == safe_pop_front(list)
    IN  IF r.ret # None
        THEN safe_into_iter_loop(r.list, acc \o r.ret)
        ELSE acc

safe_into_iter_collect(list) == safe_into_iter_loop(list, <<>>)

safe_is_empty(list) == list.head = None

\* self.head.as_ref().map(|node| &node.value)
safe_peek_front(list) ==
    IF list.head = None THEN None ELSE Some(list.head[1].value)

\* if let Some(value) = list.peek_front_mut() { *value = v }: the list left
\* and the value the reference showed.
safe_peek_front_mut(list, v) ==
    IF list.head = None
    THEN [list |-> list, ret |-> None]
    ELSE [list |-> [list EXCEPT !.head[1].value = v], ret |-> Some(list.head[1].value)]

\* *self = Self::new()
safe_clear(list) == safe_new

\* push_back that puts the new node where the walk starts.
safe_push_back_Front(list, value) ==
    [head |-> Some([value |-> value, next |-> list.head]), len |-> list.len + 1]

\* while let Some(ref mut node) = *current { current = &mut node.next }
\* *current = Some(new_node)
RECURSIVE safe_push_back_walk(_, _)
safe_push_back_walk(current, new_node) ==
    IF current = None
    THEN Some(new_node)
    ELSE Some([current[1] EXCEPT !.next = safe_push_back_walk(current[1].next, new_node)])

safe_push_back(list, value) ==
    [head |-> safe_push_back_walk(list.head, [value |-> value, next |-> None]),
     len |-> list.len + 1]

\* for value in list.iter_mut() { *value = f(*value) }: IterMut::next takes
\* the node, moves on to node.next and yields &mut node.value.
RECURSIVE safe_iter_mut_loop(_, _)
safe_iter_mut_loop(next, f) ==
    IF next = None
    THEN None
    ELSE Some([value |-> f[next[1].value], next |-> safe_iter_mut_loop(next[1].next, f)])

safe_iter_mut(list, f) ==
    [head |-> safe_iter_mut_loop(list.head, f), len |-> list.len]

\* The for loop of SafeList::from without `.rev()`: items taken front to back.
RECURSIVE safe_from_loop_NoRev(_, _, _)
safe_from_loop_NoRev(list, vec, i) ==
    IF i = 0
    THEN list
    ELSE safe_from_loop_NoRev(safe_push_front(list, vec[Len(vec) + 1 - i]), vec, i - 1)

\* for item in vec.into_iter().rev() { list.push_front(item) }: i is the
\* number of items not yet taken, the next one taken is vec[i].
RECURSIVE safe_from_loop(_, _, _)
safe_from_loop(list, vec, i) ==
    IF i = 0
    THEN list
    ELSE safe_from_loop(safe_push_front(list, vec[i]), vec, i - 1)

safe_from(vec) == safe_from_loop(safe_new, vec, Len(vec))

----------------------------------------------------------------------------
\* The client program: any sequence of calls on its list variables.

Free == Addr \ alloc

\* Sequences of n distinct free addresses.
FreeSeqs(n) ==
    {ps \in [1..n -> Free] : \A i, j \in 1..n : i # j => ps[i] # ps[j]}

Vecs(n) == [1..n -> Values]

\* The functions a loop body applies to the elements.
Fs == [Values -> Values]

Record(s, name, l, arg) ==
    /\ mem' = s.mem
    /\ alloc' = s.alloc
    /\ head' = s.head
    /\ tail' = s.tail
    /\ len' = s.len
    /\ kind' = s.kind
    /\ fault' = s.fault
    /\ op' = [name |-> name, list |-> l, arg |-> arg, ret |-> s.ret, freed |-> s.freed]

\* A call on an UnsafeList variable.
Commit(s, name, l, arg) ==
    /\ Record(s, name, l, arg)
    /\ UNCHANGED <<safe, pushes, pops, its, inserted, returned>>

Init ==
    /\ mem = [p \in Addr |-> Poison]
    /\ alloc = {}
    /\ head = [l \in Chains |-> NULL]
    /\ tail = [l \in Chains |-> NULL]
    /\ len = [l \in Chains |-> 0]
    /\ kind = [l \in Chains |-> "none"]
    /\ fault = {}
    /\ op = [name |-> "init", list |-> "", arg |-> <<>>, ret |-> None, freed |-> 0]
    /\ safe = None
    /\ pushes = 0
    /\ pops = 0
    /\ its = [i \in Iters |-> NoIter]
    /\ inserted = [v \in Values |-> 0]
    /\ returned = [v \in Values |-> 0]

New(l) ==
    /\ kind[l] = "none"
    /\ Commit(new(St, l), "new", l, <<>>)

From(l) ==
    /\ kind[l] = "none"
    /\ \E n \in 0..Cardinality(Free) :
         \E vec \in Vecs(n) :
           \E ps \in FreeSeqs(n) :
             Commit(from(St, l, vec, ps), "from", l, vec)

PushFront(l) ==
    /\ kind[l] = "list"
    /\ \E v \in Values, p \in Free :
         Commit(push_front(St, l, v, p), "push_front", l, <<v>>)

PushBack(l) ==
    /\ kind[l] = "list"
    /\ \E v \in Values, p \in Free :
         Commit(push_back(St, l, v, p), "push_back", l, <<v>>)

PopFront(l) ==
    /\ kind[l] = "list"
    /\ Commit(pop_front(St, l), "pop_front", l, <<>>)

PeekFront(l) ==
    /\ kind[l] = "list"
    /\ Commit(peek_front(St, l), "peek_front", l, <<>>)

PeekFrontMut(l) ==
    /\ kind[l] = "list"
    /\ \E v \in Values :
         Commit(peek_front_mut(St, l, v), "peek_front_mut", l, <<v>>)

Clear(l) ==
    /\ kind[l] = "list"
    /\ Commit(clear(St, l), "clear", l, <<>>)

Reverse(l) ==
    /\ kind[l] = "list"
    /\ Commit(reverse(St, l), "reverse", l, <<>>)

Remove(l) ==
    /\ kind[l] = "list"
    /\ \E index \in Indices :
         Commit(remove(St, l, index), "remove", l, <<index>>)

Iterate(l) ==
    /\ kind[l] = "list"
    /\ Commit(iter(St, l), "iter", l, <<>>)

AppendList(l) ==
    /\ kind[l] = "list"
    /\ \E other \in Chains \ {l} :
         /\ kind[other] = "list"
         /\ Commit(append(St, l, other), "append", l, <<other, len[other]>>)

IntoIterCollect(l) ==
    /\ kind[l] = "list"
    /\ Commit(into_iter_collect(St, l), "into_iter", l, <<>>)

Drop(l) ==
    /\ kind[l] = "list"
    /\ Commit(drop(St, l), "drop", l, <<>>)

Next ==
    \E l \in Lists :
        \/ New(l)
        \/ From(l)
        \/ PushFront(l)
        \/ PushBack(l)
        \/ PopFront(l)
        \/ PeekFront(l)
        \/ PeekFrontMut(l)
        \/ Clear(l)
        \/ Reverse(l)
        \/ Remove(l)
        \/ Iterate(l)
        \/ AppendList(l)
        \/ IntoIterCollect(l)
        \/ Drop(l)

Spec == Init /\ [][Next]_vars


----------------------------------------------------------------------------
\* A client that counts its calls: one list, made by new(), then any sequence
\* of push_front, push_back and pop_front, and at last a consuming iteration.

Counted == "a"

CountNew ==
    /\ kind[Counted] = "none"
    /\ Record(new(St, Counted), "new", Counted, <<>>)
    /\ pushes' = 0
    /\ pops' = 0
    /\ UNCHANGED <<safe, its, inserted, returned>>

CountPushFront ==
    /\ kind[Counted] = "list"
    /\ pushes < MaxOps
    /\ \E v \in Values, p \in Free :
         Record(push_front(St, Counted, v, p), "push_front", Counted, <<v>>)
    /\ pushes' = pushes + 1
    /\ UNCHANGED <<safe, pops, its, inserted, returned>>

CountPushBack ==
    /\ kind[Counted] = "list"
    /\ pushes < MaxOps
    /\ \E v \in Values, p \in Free :
         Record(push_back(St, Counted, v, p), "push_back", Counted, <<v>>)
    /\ pushes' = pushes + 1
    /\ UNCHANGED <<safe, pops, its, inserted, returned>>

CountPopFront ==
    /\ kind[Counted] = "list"
    /\ LET s == pop_front(St, Counted)
       IN  /\ Record(s, "pop_front", Counted, <<>>)
           /\ pops' = IF s.ret # None THEN pops + 1 ELSE pops
    /\ UNCHANGED <<safe, pushes, its, inserted, returned>>

CountIntoIter ==
    /\ kind[Counted] = "list"
    /\ Record(into_iter_collect(St, Counted), "into_iter", Counted, <<>>)
    /\ UNCHANGED <<safe, pushes, pops, its, inserted, returned>>

NextPushPop ==
    \/ CountNew
    \/ CountPushFront
    \/ CountPushBack
    \/ CountPopFront
    \/ CountIntoIter

SpecPushPop == Init /\ [][NextPushPop]_vars

----------------------------------------------------------------------------
\* A client that builds lists from vectors and iterates over them: one
\* UnsafeList variable and one SafeList variable.

Built == "a"

SafeOp(name, arg, ret) ==
    /\ op' = [name |-> name, list |-> "safe", arg |-> arg, ret |-> ret, freed |-> 0]
    /\ UNCHANGED <<mem, alloc, head, tail, len, kind, fault, pushes, pops, its, inserted, returned>>

SafeFrom ==
    /\ safe = None
    /\ \E n \in 0..MaxNodes :
         \E vec \in Vecs(n) :
           /\ safe' = Some(safe_from(vec))
           /\ SafeOp("safe_from", vec, None)

SafeIterate ==
    /\ safe # None
    /\ safe' = safe
    /\ SafeOp("safe_iter", <<>>, safe_iter(safe[1]))

SafeIntoIter ==
    /\ safe # None
    /\ safe' = None
    /\ SafeOp("safe_into_iter", <<>>, safe_into_iter_collect(safe[1]))

NextFrom ==
    \/ From(Built)
    \/ Iterate(Built)
    \/ IntoIterCollect(Built)
    \/ SafeFrom
    \/ SafeIterate
    \/ SafeIntoIter

SpecFrom == Init /\ [][NextFrom]_vars

----------------------------------------------------------------------------
\* A client that builds three lists from vectors and appends them.

NextAssoc ==
    \E l \in Chains :
        \/ From(l)
        \/ AppendList(l)

SpecAssoc == Init /\ [][NextAssoc]_vars

----------------------------------------------------------------------------
\* A client that iterates over its list while it uses it.  What the borrow
\* checker accepts: a call that takes &self while no IterMut over the list is
\* alive, a call that takes &mut self or self while no iterator over it is.

borrow(l) ==
    /\ kind[l] = "list"
    /\ \A i \in Iters : its[i].list = l => its[i].kind = "iter"

\* A borrow checker that lets &mut self through whatever is alive.
borrow_mut_Unchecked(l) ==
    kind[l] = "list"

borrow_mut(l) ==
    /\ kind[l] = "list"
    /\ \A i \in Iters : its[i].list # l

\* A call on iterator variable i.
IterCommit(r, name, l, i) ==
    /\ Record(r.s, name, l, <<i>>)
    /\ its' = [its EXCEPT ![i] = r.it]
    /\ UNCHANGED <<safe, pushes, pops, inserted, returned>>

IterFrom(l) ==
    /\ \A i \in Iters : its[i].list # l
    /\ From(l)

IterPushFront == borrow_mut(Built) /\ PushFront(Built)

IterPushBack == borrow_mut(Built) /\ PushBack(Built)

IterPopFront == borrow_mut(Built) /\ PopFront(Built)

IterRemove == borrow_mut(Built) /\ Remove(Built)

IterReverse == borrow_mut(Built) /\ Reverse(Built)

IterClear == borrow_mut(Built) /\ Clear(Built)

IterAppend == borrow_mut(Built) /\ AppendList(Built)

IterListDrop == borrow_mut(Built) /\ Drop(Built)

IterNew(i) ==
    /\ its[i].kind = "none"
    /\ borrow(Built)
    /\ IterCommit([s |-> St, it |-> Iter_new(St, Built)], "iter", Built, i)

IterNext(i) ==
    /\ its[i].kind = "iter"
    /\ IterCommit(Iter_next(St, its[i]), "next", its[i].list, i)

IterMutNew(i) ==
    /\ its[i].kind = "none"
    /\ borrow_mut(Built)
    /\ \E f \in Fs :
         IterCommit([s |-> St, it |-> IterMut_new(St, Built, f)], "iter_mut", Built, i)

IterMutNext(i) ==
    /\ its[i].kind = "iter_mut"
    /\ IterCommit(IterMut_next(St, its[i]), "next_mut", its[i].list, i)

\* An Iter or IterMut goes out of scope.
IterDrop(i) ==
    /\ its[i].kind \in {"iter", "iter_mut"}
    /\ IterCommit([s |-> St, it |-> NoIter], "drop_iter", its[i].list, i)

NextIter ==
    \/ \E l \in Lists : IterFrom(l)
    \/ IterAppend
    \/ IterPushFront
    \/ IterPushBack
    \/ IterPopFront
    \/ IterRemove
    \/ IterReverse
    \/ IterClear
    \/ IterListDrop
    \/ \E i \in Iters :
         \/ IterNew(i)
         \/ IterNext(i)
         \/ IterMutNew(i)
         \/ IterMutNext(i)
         \/ IterDrop(i)

SpecIter == Init /\ [][NextIter]_vars

----------------------------------------------------------------------------
\* A client that builds a list and consumes it through into_iter(), one
\* next() at a time, and lets go of the iterator at any point.

IntoIterNew(i) ==
    /\ its[i].kind = "none"
    /\ borrow_mut(Built)
    /\ IterCommit(IntoIter_new(St, Built), "into_iter", Built, i)

IntoIterNext(i) ==
    /\ its[i].kind = "into_iter"
    /\ IterCommit(IntoIter_next(St, its[i]), "into_next", its[i].list, i)

\* The argument recorded is the iterator and the number of items it had yielded.
IntoIterDrop(i) ==
    /\ its[i].kind = "into_iter"
    /\ LET r == IntoIter_drop(St, its[i])
       IN  /\ Record(r.s, "drop_into_iter", its[i].list, <<i, Len(its[i].out)>>)
           /\ its' = [its EXCEPT ![i] = r.it]
    /\ UNCHANGED <<safe, pushes, pops, inserted, returned>>

NextIntoIter ==
    \/ From(Built)
    \/ \E i \in Iters :
         \/ IntoIterNew(i)
         \/ IntoIterNext(i)
         \/ IntoIterDrop(i)

SpecIntoIter == Init /\ [][NextIntoIter]_vars

----------------------------------------------------------------------------
\* A client that keeps account of the values it hands to its lists and of the
\* values it gets back.

RECURSIVE Sum(_, _)
Sum(fn, dom) ==
    IF dom = {}
    THEN 0
    ELSE LET v == CHOOSE x \in dom : TRUE
         IN  fn[v] + Sum(fn, dom \ {v})

\* The account after a call that put in the values of q and returned ret.
Account(q, ret) ==
    /\ inserted' = [v \in Values |->
                      inserted[v] + Cardinality({k \in 1..Len(q) : q[k] = v})]
    /\ returned' = [v \in Values |-> IF ret = Some(v) THEN returned[v] + 1 ELSE returned[v]]
    /\ UNCHANGED <<safe, pushes, pops, its>>

KeepNew(l) ==
    /\ kind[l] = "none"
    /\ Record(new(St, l), "new", l, <<>>)
    /\ Account(<<>>, None)

KeepPushFront(l) ==
    /\ kind[l] = "list"
    /\ Sum(inserted, Values) < MaxKept
    /\ \E v \in Values, p \in Free :
         /\ Record(push_front(St, l, v, p), "push_front", l, <<v>>)
         /\ Account(<<v>>, None)

KeepPushBack(l) ==
    /\ kind[l] = "list"
    /\ Sum(inserted, Values) < MaxKept
    /\ \E v \in Values, p \in Free :
         /\ Record(push_back(St, l, v, p), "push_back", l, <<v>>)
         /\ Account(<<v>>, None)

KeepPopFront(l) ==
    /\ kind[l] = "list"
    /\ LET s == pop_front(St, l)
       IN  Record(s, "pop_front", l, <<>>) /\ Account(<<>>, s.ret)

KeepRemove(l) ==
    /\ kind[l] = "list"
    /\ \E index \in Indices :
         LET s == remove(St, l, index)
         IN  Record(s, "remove", l, <<index>>) /\ Account(<<>>, s.ret)

KeepReverse(l) ==
    /\ kind[l] = "list"
    /\ Record(reverse(St, l), "reverse", l, <<>>)
    /\ Account(<<>>, None)

KeepAppend(l) ==
    /\ kind[l] = "list"
    /\ \E other \in Lists \ {l} :
         /\ kind[other] = "list"
         /\ Record(append(St, l, other), "append", l, <<other, len[other]>>)
    /\ Account(<<>>, None)

NextKeep ==
    \E l \in Lists :
        \/ KeepNew(l)
        \/ KeepPushFront(l)
        \/ KeepPushBack(l)
        \/ KeepPopFront(l)
        \/ KeepRemove(l)
        \/ KeepReverse(l)
        \/ KeepAppend(l)

SpecKeep == Init /\ [][NextKeep]_vars

----------------------------------------------------------------------------
\* A client that makes every call on an UnsafeList and on a SafeList alike.
\* The result recorded for a call is the pair of what the two lists returned.

Both(s, list, ret, name, arg) ==
    /\ Record([s EXCEPT !.ret = <<s.ret, ret>>], name, Built, arg)
    /\ safe' = list
    /\ UNCHANGED <<pushes, pops, its, inserted, returned>>

BothNew ==
    /\ kind[Built] = "none" /\ safe = None
    /\ Both(new(St, Built), Some(safe_new), None, "new", <<>>)

BothFrom ==
    /\ kind[Built] = "none" /\ safe = None
    /\ \E n \in 0..Cardinality(Free) :
         \E vec \in Vecs(n) :
           \E ps \in FreeSeqs(n) :
             Both(from(St, Built, vec, ps), Some(safe_from(vec)), None, "from", vec)

BothPushFront ==
    /\ kind[Built] = "list" /\ safe # None
    /\ \E v \in Values, p \in Free :
         Both(push_front(St, Built, v, p), Some(safe_push_front(safe[1], v)), None,
              "push_front", <<v>>)

BothPushBack ==
    /\ kind[Built] = "list" /\ safe # None
    /\ \E v \in Values, p \in Free :
         Both(push_back(St, Built, v, p), Some(safe_push_back(safe[1], v)), None,
              "push_back", <<v>>)

BothPopFront ==
    /\ kind[Built] = "list" /\ safe # None
    /\ LET r == safe_pop_front(safe[1])
       IN  Both(pop_front(St, Built), Some(r.list), r.ret, "pop_front", <<>>)

BothPeekFront ==
    /\ kind[Built] = "list" /\ safe # None
    /\ Both(peek_front(St, Built), safe, safe_peek_front(safe[1]), "peek_front", <<>>)

BothPeekFrontMut ==
    /\ kind[Built] = "list" /\ safe # None
    /\ \E v \in Values :
         LET r == safe_peek_front_mut(safe[1], v)
         IN  Both(peek_front_mut(St, Built, v), Some(r.list), r.ret, "peek_front_mut", <<v>>)

BothIterMut ==
    /\ kind[Built] = "list" /\ safe # None
    /\ \E f \in Fs :
         Both(iter_mut(St, Built, f), Some(safe_iter_mut(safe[1], f)), None, "iter_mut", <<f>>)

BothClear ==
    /\ kind[Built] = "list" /\ safe # None
    /\ Both(clear(St, Built), Some(safe_clear(safe[1])), None, "clear", <<>>)

BothDrop ==
    /\ kind[Built] = "list" /\ safe # None
    /\ Both(drop(St, Built), None, None, "drop", <<>>)

NextBoth ==
    \/ BothNew
    \/ BothFrom
    \/ BothPushFront
    \/ BothPushBack
    \/ BothPopFront
    \/ BothPeekFront
    \/ BothPeekFrontMut
    \/ BothIterMut
    \/ BothClear
    \/ BothDrop

SpecBoth == Init /\ [][NextBoth]_vars

----------------------------------------------------------------------------
\* What the properties speak of.

\* The addresses met following next from p, at most fuel of them.
RECURSIVE ChainFrom(_, _, _)
ChainFrom(s, p, fuel) ==
    IF p = NULL \/ fuel = 0
    THEN <<>>
    ELSE <<p>> \o ChainFrom(s, s.mem[p].next, fuel - 1)

\* The nodes of list l from head on.  A chain longer than MaxNodes has a cycle.
Chain(s, l) == ChainFrom(s, s.head[l], MaxNodes + 1)

ChainSet(s, l) ==
    LET c == Chain(s, l)
    IN  {c[i] : i \in 1..Len(c)}

\* The head-to-tail sequence of values of list l.
Vals(s, l) ==
    LET c == Chain(s, l)
    IN  [i \in 1..Len(c) |-> s.mem[c[i]].value]

Distinct(c) == \A i, j \in 1..Len(c) : i # j => c[i] # c[j]

\* Sequence c without its k-th element.
Without(c, k) == [i \in 1..(Len(c) - 1) |-> IF i < k THEN c[i] ELSE c[i + 1]]

Rev(c) == [i \in 1..Len(c) |-> c[Len(c) + 1 - i]]

Live == {l \in Lists : kind[l] = "list"}

\* C1: following next from head visits exactly len distinct live nodes, ends
\* at a node whose next is none, and that node is the one tail references.
C1_ChainEndsAtTail ==
    \A l \in Live :
        LET c == Chain(St, l)
        IN  /\ Len(c) = len[l]
            /\ Distinct(c)
            /\ \A i \in 1..Len(c) : c[i] \in alloc
            /\ c # <<>> => /\ mem[c[Len(c)]].next = NULL
                           /\ tail[l] = c[Len(c)]

\* C1 witness: a remove of the last of three nodes has moved tail to the
\* node before it.
C1_Witness ==
    /\ op.name = "remove"
    /\ op.arg = <<2>>
    /\ op.ret # None
    /\ len[op.list] = 2
    /\ tail[op.list] = Chain(St, op.list)[2]

\* C2: head is none iff len is 0 iff tail is none, so is_empty() is true
\* exactly when len() is 0.
C2_EmptyAgree ==
    \A l \in Live :
        /\ (head[l] = NULL) <=> (len[l] = 0)
        /\ (len[l] = 0) <=> (tail[l] = NULL)
        /\ is_empty(St, l) <=> (len[l] = 0)

\* C2 witness: a pop_front has returned the last element and left the list
\* empty in all three fields.
C2_Witness ==
    /\ op.name = "pop_front"
    /\ op.ret # None
    /\ head[op.list] = NULL
    /\ tail[op.list] = NULL
    /\ len[op.list] = 0

\* C3: head, tail and the next pointer of every node reachable from head refer
\* to a node that is allocated and not released (or to none), and no released
\* node has been dereferenced.
C3_NoDangling ==
    /\ "use_after_free" \notin fault
    /\ \A l \in Live :
         /\ head[l] \in alloc \cup {NULL}
         /\ tail[l] \in alloc \cup {NULL}
         /\ \A p \in ChainSet(St, l) :
              /\ p \in alloc
              /\ mem[p].next \in alloc \cup {NULL}

\* C3 witness: a remove has released the middle one of three nodes and the two
\* left are chained to each other.
C3_Witness ==
    /\ op.name = "remove"
    /\ op.arg = <<1>>
    /\ op.freed = 1
    /\ len[op.list] = 2
    /\ mem[head[op.list]].next = tail[op.list]
    /\ alloc = {head[op.list], tail[op.list]}

\* C4: no node is released twice, and the `other` of an append is, when it is
\* destroyed at the end of append, an empty list (head none, tail none, len 0)
\* whose destruction releases nothing, whichever branch append took.
C4_NoDoubleRelease ==
    /\ "double_free" \notin fault
    /\ \A l \in Live : \A other \in Live \ {l} :
         LET m == append_body(St, l, other)
         IN  /\ m.head[other] = NULL
             /\ m.tail[other] = NULL
             /\ m.len[other] = 0
             /\ drop(m, other).freed = 0
             /\ drop(m, other).alloc = m.alloc

\* C4 witness: two non-empty lists have been appended, the argument is gone
\* and its destruction has released no node.
C4_Witness ==
    /\ op.name = "append"
    /\ op.arg[2] >= 1
    /\ len[op.list] > op.arg[2]
    /\ op.freed = 0
    /\ kind[op.arg[1]] = "none"
    /\ fault = {}

Releasing == {"pop_front", "remove", "clear", "drop", "into_iter"}

C5_Step ==
    /\ \A l \in Lists :
         (op'.name = "drop" /\ op'.list = l) =>
             /\ ChainSet(St, l) \subseteq alloc
             /\ alloc' = alloc \ ChainSet(St, l)
             /\ op'.freed = len[l]
             /\ "double_free" \notin fault'
             /\ head'[l] = NULL
             /\ tail'[l] = NULL
             /\ len'[l] = 0
    /\ (op'.freed > 0 \/ ~(alloc \subseteq alloc')) => op'.name \in Releasing
    /\ (\A l \in Lists : kind'[l] = "none") => alloc' = {}

\* C5: dropping a list releases every node reachable from head exactly once
\* and leaves head none, tail none, len 0; nodes are released only by
\* pop_front, remove, clear and drop (consuming iteration is pop_front and
\* drop); once every list is destroyed no node is left allocated.
C5_DropReleasesAll == [][C5_Step]_vars

\* C5 witness: a drop has released at least two nodes and no list and no node
\* is left.
C5_Witness ==
    /\ op.name = "drop"
    /\ op.freed >= 2
    /\ \A l \in Lists : kind[l] = "none"
    /\ alloc = {}

\* The pointers list l holds: head, tail and the nodes reachable from head.
Pointers(s, l) == (ChainSet(s, l) \cup {s.head[l], s.tail[l]}) \ {NULL}

Disjoint ==
    \A l1 \in Live : \A l2 \in Live \ {l1} :
        Pointers(St, l1) \cap Pointers(St, l2) = {}

C6_Step ==
    \A l \in Lists : \A other \in Lists :
        (op'.name = "append" /\ op'.list = l /\ op'.arg[1] = other) =>
            /\ Chain(St, l)' = Chain(St, l) \o Chain(St, other)
            /\ ChainSet(St, l)' \subseteq alloc'
            /\ kind'[other] = "none"
            /\ head'[other] = NULL
            /\ tail'[other] = NULL
            /\ \A r \in Lists \ {l, other} :
                 Pointers(St, r)' \cap ChainSet(St, other) = {}

\* C6: no two live lists reference the same node; after a.append(b) the nodes
\* of b are, in order, the end of a's chain, still allocated, and b holds no
\* pointer to them.
C6_NoSharedNode == []Disjoint /\ [][C6_Step]_vars

\* C6 witness: a one-node list has taken over the two nodes of its argument
\* while holding every allocated node.
C6_Witness ==
    /\ op.name = "append"
    /\ op.arg[2] = 2
    /\ len[op.list] = 3
    /\ ChainSet(St, op.list) = alloc
    /\ Pointers(St, op.arg[1]) = {}

C7_Step ==
    \A l \in Lists : \A index \in Indices :
        (op'.name = "remove" /\ op'.list = l /\ op'.arg = <<index>> /\ index < len[l]) =>
            /\ op'.ret = Some(Vals(St, l)[index + 1])
            /\ len'[l] = len[l] - 1
            /\ Vals(St, l)' = Without(Vals(St, l), index + 1)
            /\ Chain(St, l)' = Without(Chain(St, l), index + 1)

\* C7: remove(i) with i < len() returns the element at position i, decreases
\* len() by 1 and leaves the sequence with that element deleted, the others in
\* their order (values and nodes).
C7_RemoveInRange == [][C7_Step]_vars

\* C7 witness: remove(1) on three elements has returned one and left two.
C7_Witness ==
    /\ op.name = "remove"
    /\ op.arg = <<1>>
    /\ op.ret # None
    /\ len[op.list] = 2
    /\ Len(Vals(St, op.list)) = 2

C8_Step ==
    \A l \in Lists : \A index \in Indices :
        (op'.name = "remove" /\ op'.list = l /\ op'.arg = <<index>> /\ index >= len[l]) =>
            /\ op'.ret = None
            /\ op'.freed = 0
            /\ UNCHANGED <<mem, alloc, head, tail, len, kind, fault>>

\* C8: remove(i) with i >= len() returns None and changes nothing: len, head,
\* tail, every node's next and value, and the set of allocated nodes.
C8_RemoveOutOfRange == [][C8_Step]_vars

\* C8 witness: remove(2) on a two-element list has returned None.
C8_Witness ==
    /\ op.name = "remove"
    /\ op.arg = <<2>>
    /\ op.ret = None
    /\ len[op.list] = 2

C9_Step ==
    \A l \in Lists : \A other \in Lists :
        (op'.name = "append" /\ op'.list = l /\ op'.arg[1] = other) =>
            /\ Vals(St, l)' = Vals(St, l) \o Vals(St, other)
            /\ len'[l] = len[l] + len[other]
            /\ len[l] = 0 =>
                 /\ head'[l] = head[other]
                 /\ tail'[l] = tail[other]
                 /\ mem' = mem
            /\ len[other] = 0 =>
                 /\ head'[l] = head[l]
                 /\ tail'[l] = tail[l]
                 /\ mem' = mem
            /\ alloc' = alloc
            /\ op'.freed = 0

\* C9: after a.append(b) the sequence of a is the former a followed by the
\* former b and a.len() is the sum; an empty a becomes b's chain, an empty b
\* leaves a as it was; no node is allocated or released.
C9_AppendConcat == [][C9_Step]_vars

\* C9 witness: a two-element list has been extended by a one-element list.
C9_Witness ==
    /\ op.name = "append"
    /\ op.arg[2] = 1
    /\ len[op.list] = 3
    /\ Len(Vals(St, op.list)) = 3

C10_Step ==
    \A l \in Lists :
        (op'.name = "reverse" /\ op'.list = l) =>
            /\ Chain(St, l)' = Rev(Chain(St, l))
            /\ Vals(St, l)' = Rev(Vals(St, l))
            /\ len'[l] = len[l]
            /\ head'[l] = tail[l]
            /\ tail'[l] = head[l]
            /\ alloc' = alloc
            /\ op'.freed = 0
            /\ \A p \in Addr :
                 /\ mem'[p].value = mem[p].value
                 /\ p \notin ChainSet(St, l) => mem'[p] = mem[p]
            /\ \A r \in Lists \ {l} :
                 head'[r] = head[r] /\ tail'[r] = tail[r] /\ len'[r] = len[r]
            /\ kind' = kind

\* C10: reverse() leaves the sequence reversed over the same nodes, len
\* unchanged, nothing allocated or released, no value moved; the former tail
\* is head, the former head is tail, and only next pointers and head/tail
\* are rewritten.
C10_ReverseFrame == [][C10_Step]_vars

\* C10 witness: a three-element list has been reversed and its values are not
\* a palindrome.
C10_Witness ==
    /\ op.name = "reverse"
    /\ len[op.list] = 3
    /\ Vals(St, op.list)[1] # Vals(St, op.list)[3]
    /\ mem[tail[op.list]].next = NULL

\* C11: for every list, the empty and the one-element list included, calling
\* reverse() twice restores the head-to-tail order, head, tail and len (and
\* every node's next pointer).
C11_ReverseTwice ==
    \A l \in Live :
        LET t == reverse(reverse(St, l), l)
        IN  /\ Vals(t, l) = Vals(St, l)
            /\ Chain(t, l) = Chain(St, l)
            /\ t.head[l] = head[l]
            /\ t.tail[l] = tail[l]
            /\ t.len[l] = len[l]
            /\ t.mem = mem

\* C11 witness: a list of three has just been reversed, a second reverse
\* changes its order again, and it ends as it is now after two more.
C11_Witness ==
    /\ op.name = "reverse"
    /\ len[op.list] = 3
    /\ Vals(reverse(St, op.list), op.list) # Vals(St, op.list)
    /\ Vals(reverse(reverse(St, op.list), op.list), op.list) = Vals(St, op.list)

\* C14: push_front(x) immediately followed by pop_front() returns Some(x) and
\* leaves the list as it was before the push: same len, same sequence, same
\* head and tail nodes (both none again when the list was empty), and the
\* same nodes allocated.
C14_PushThenPop ==
    \A l \in Live : \A x \in Values : \A p \in Addr \ alloc :
        LET t == pop_front(push_front(St, l, x, p), l)
        IN  /\ t.ret = Some(x)
            /\ t.len[l] = len[l]
            /\ Vals(t, l) = Vals(St, l)
            /\ Chain(t, l) = Chain(St, l)
            /\ t.head[l] = head[l]
            /\ t.tail[l] = tail[l]
            /\ t.alloc = alloc
            /\ t.fault = fault

\* C14 witness: push_front has just put its argument on an empty list, and
\* the pop_front that follows returns it and leaves head and tail none.
C14_Witness ==
    /\ op.name = "push_front"
    /\ len[op.list] = 1
    /\ pop_front(St, op.list).ret = op.arg
    /\ pop_front(St, op.list).head[op.list] = NULL
    /\ pop_front(St, op.list).tail[op.list] = NULL

C16_Step ==
    \A l \in Lists : \A x \in Values :
        (op'.name = "push_front" /\ op'.list = l /\ op'.arg = <<x>>) =>
            /\ len'[l] = len[l] + 1
            /\ Vals(St, l)' = <<x>> \o Vals(St, l)
            /\ Chain(St, l)' = <<head'[l]>> \o Chain(St, l)
            /\ head'[l] \notin alloc
            /\ alloc' = alloc \cup {head'[l]}
            /\ len[l] = 0 => tail'[l] = head'[l]
            /\ len[l] # 0 => tail'[l] = tail[l]

\* C16: push_front(value) increases len() by 1 and makes the sequence value
\* followed by the previous sequence; on an empty list the new node is also
\* tail, otherwise tail is unchanged.
C16_PushFront == [][C16_Step]_vars

\* C16 witness: push_front on a two-element list has put its argument first
\* and left tail on the last node.
C16_Witness ==
    /\ op.name = "push_front"
    /\ len[op.list] = 3
    /\ Vals(St, op.list)[1] = op.arg[1]
    /\ tail[op.list] = Chain(St, op.list)[3]

C17_Step ==
    \A l \in Lists : \A x \in Values :
        (op'.name = "push_back" /\ op'.list = l /\ op'.arg = <<x>>) =>
            /\ len'[l] = len[l] + 1
            /\ Vals(St, l)' = Vals(St, l) \o <<x>>
            /\ Chain(St, l)' = Chain(St, l) \o <<tail'[l]>>
            /\ tail'[l] \notin alloc
            /\ alloc' = alloc \cup {tail'[l]}
            /\ len[l] = 0 => head'[l] = tail'[l]
            /\ len[l] # 0 => head'[l] = head[l]

\* C17: push_back(value) increases len() by 1 and makes the sequence the
\* previous sequence followed by value, in every reachable state of the list;
\* on an empty list the new node is also head.
C17_PushBack == [][C17_Step]_vars

\* C17 witness: push_back on a two-element list has put its argument last.
C17_Witness ==
    /\ op.name = "push_back"
    /\ len[op.list] = 3
    /\ Vals(St, op.list)[3] = op.arg[1]
    /\ head[op.list] = Chain(St, op.list)[1]
    /\ mem[tail[op.list]].next = NULL

\* No head, tail or next pointer of a live list refers to p.
Unreferenced(s, p) ==
    \A r \in {l \in Lists : s.kind[l] = "list"} :
        /\ s.head[r] # p
        /\ s.tail[r] # p
        /\ \A q \in ChainSet(s, r) : s.mem[q].next # p

C18_Step ==
    \A l \in Lists :
        (op'.name = "pop_front" /\ op'.list = l /\ head[l] # NULL) =>
            /\ op'.ret = Some(Vals(St, l)[1])
            /\ len'[l] = len[l] - 1
            /\ Vals(St, l)' = Tail(Vals(St, l))
            /\ Chain(St, l)' = Tail(Chain(St, l))
            /\ alloc' = alloc \ {head[l]}
            /\ op'.freed = 1
            /\ "double_free" \notin fault'
            /\ len[l] = 1 => (head'[l] = NULL /\ tail'[l] = NULL)
            /\ len[l] # 1 => tail'[l] = tail[l]
            /\ Unreferenced(St', head[l])

\* C18: pop_front() on a non-empty list returns the first element, decreases
\* len() by 1, keeps the other elements in order, releases exactly the former
\* head node, clears tail when the list becomes empty, and leaves no head,
\* tail or next pointer referring to the released node.
C18_PopFront == [][C18_Step]_vars

\* C18 witness: pop_front has released the first of three nodes.
C18_Witness ==
    /\ op.name = "pop_front"
    /\ op.ret # None
    /\ op.freed = 1
    /\ len[op.list] = 2
    /\ Cardinality(alloc) = 2

Absent == {"pop_front", "peek_front", "peek_front_mut", "remove"}

C19_Step ==
    /\ op'.name \in Absent => fault' = {}
    /\ \A l \in Lists :
         (/\ op'.list = l
          /\ \/ op'.name \in {"pop_front", "peek_front", "peek_front_mut"} /\ head[l] = NULL
             \/ op'.name = "remove" /\ op'.arg[1] >= len[l]) =>
             /\ op'.ret = None
             /\ op'.freed = 0
             /\ UNCHANGED <<mem, alloc, head, tail, len, kind, fault>>

\* C19: pop_front, peek_front and peek_front_mut on an empty list, and
\* remove(i) with i >= len(), return None and leave the list unchanged; in no
\* reachable state and for no index does one of the four operations panic
\* (len is never decremented below 0, no released node is touched).
C19_AbsenceNotFailure == [][C19_Step]_vars

\* C19 witness: peek_front_mut on an empty list has returned None while the
\* other list holds two elements.
C19_Witness ==
    /\ op.name = "peek_front_mut"
    /\ op.ret = None
    /\ len[op.list] = 0
    /\ head[op.list] = NULL
    /\ \E r \in Live : len[r] = 2
    /\ fault = {}

C20_Step ==
    \A l \in Lists :
        /\ (op'.name = "peek_front" /\ op'.list = l /\ head[l] # NULL) =>
               /\ op'.ret = Some(Vals(St, l)[1])
               /\ UNCHANGED <<mem, alloc, head, tail, len, kind, fault>>
        /\ \A x \in Values :
             (op'.name = "peek_front_mut" /\ op'.list = l /\ op'.arg = <<x>>
              /\ head[l] # NULL) =>
                 /\ mem' = [mem EXCEPT ![head[l]].value = x]
                 /\ (peek_front(St, l).ret)' = Some(x)
                 /\ UNCHANGED <<alloc, head, tail, len, kind, fault>>

\* C20: peek_front() returns the first element and changes nothing; a write
\* through peek_front_mut() changes only the value of the head node, a
\* following peek_front() returns the written value, and len, head, tail,
\* every next pointer and every other value are unchanged.
C20_PeekFrame == [][C20_Step]_vars

\* C20 witness: a write through peek_front_mut has changed the first of two
\* elements, which peek_front now returns, and not the second.
C20_Witness ==
    /\ op.name = "peek_front_mut"
    /\ len[op.list] = 2
    /\ op.ret # None
    /\ op.ret # op.arg
    /\ peek_front(St, op.list).ret = op.arg
    /\ Vals(St, op.list)[2] # op.arg[1]

C12_Inv ==
    kind[Counted] = "list" =>
        /\ len[Counted] = pushes - pops
        /\ Len(into_iter_collect(St, Counted).ret) = len[Counted]

C12_Step ==
    op'.name = "into_iter" =>
        /\ Len(op'.ret) = len[Counted]
        /\ Len(op'.ret) = pushes - pops

\* C12: after every sequence of push_front, push_back and pop_front calls on
\* a list that started empty, len() is the number of pushes minus the number
\* of pop_front calls that returned a value, and a consuming iteration of the
\* list yields exactly len() items.
C12_LenIsNetCount == []C12_Inv /\ [][C12_Step]_vars

\* C12 witness: a consuming iteration has yielded the two items left after
\* five pushes and three successful pops.
C12_Witness ==
    /\ op.name = "into_iter"
    /\ Len(op.ret) = 2
    /\ pushes = 5
    /\ pops = 3

C13_Built ==
    /\ op.name = "from" =>
           /\ len[op.list] = Len(op.arg)
           /\ iter(St, op.list).ret = op.arg
           /\ into_iter_collect(St, op.list).ret = op.arg
    /\ op.name = "safe_from" =>
           /\ safe[1].len = Len(op.arg)
           /\ safe_iter(safe[1]) = op.arg
           /\ safe_into_iter_collect(safe[1]) = op.arg

C13_Step ==
    /\ (op.name = "from" /\ op'.name \in {"iter", "into_iter"} /\ op'.list = op.list) =>
             op'.ret = op.arg
    /\ (op.name = "safe_from" /\ op'.name \in {"safe_iter", "safe_into_iter"}) =>
             op'.ret = op.arg

\* C13: for every input vector v, the empty one included, the list built by
\* from(v) has len() = length of v, and a read-only iteration and a consuming
\* iteration of it both yield the elements of v in their order; for
\* UnsafeList::from (push_back of each item) and for SafeList::from
\* (push_front of the items taken in reverse).
C13_FromRoundTrip == []C13_Built /\ [][C13_Step]_vars

\* C13 witness: SafeList::from of a vector that differs from its reverse has
\* built a list that iterates in the vector's order, while an UnsafeList
\* built by from holds the same three values in that order.
C13_Witness ==
    /\ op.name = "safe_from"
    /\ op.arg = <<"x", "y", "y">>
    /\ safe[1].len = 3
    /\ safe_iter(safe[1]) = op.arg
    /\ kind[Built] = "list"
    /\ iter(St, Built).ret = op.arg

\* The triples of distinct list variables that all hold a list.
Triples ==
    {t \in Chains \X Chains \X Chains :
        /\ t[1] # t[2] /\ t[1] # t[3] /\ t[2] # t[3]
        /\ \A i \in 1..3 : kind[t[i]] = "list"}

\* C15: appending b to a and then c to a gives a the same head-to-tail
\* sequence and the same len as appending c to b and then b to a, for all
\* lists a, b, c, empty ones included.
C15_AppendAssoc ==
    \A t \in Triples :
        LET a == t[1]
            b == t[2]
            c == t[3]
            left == append(append(St, a, b), a, c)
            right == append(append(St, b, c), a, b)
        IN  /\ Vals(left, a) = Vals(right, a)
            /\ Chain(left, a) = Chain(right, a)
            /\ left.len[a] = right.len[a]
            /\ left.fault = right.fault

\* C15 witness: three lists of one element each, the one of b unlike the
\* others; both ways of appending give a the values of a, b, c in this order
\* and len 3.
C15_Witness ==
    /\ \A l \in Chains : kind[l] = "list" /\ len[l] = 1
    /\ Vals(St, "b") # Vals(St, "a")
    /\ Vals(St, "b") # Vals(St, "c")
    /\ Vals(append(append(St, "a", "b"), "a", "c"), "a")
           = Vals(St, "a") \o Vals(St, "b") \o Vals(St, "c")
    /\ Vals(append(append(St, "b", "c"), "a", "b"), "a")
           = Vals(St, "a") \o Vals(St, "b") \o Vals(St, "c")
    /\ append(append(St, "b", "c"), "a", "b").len["a"] = 3

C26_Step ==
    \A l \in Lists :
        (op'.name = "remove" /\ op'.list = l) =>
            /\ (len[l] >= 2 /\ op'.arg[1] = len[l] - 1) =>
                   /\ op'.ret # None
                   /\ tail'[l] = Chain(St, l)[len[l] - 1]
                   /\ mem'[tail'[l]].next = NULL
                   /\ tail'[l] \in alloc'
                   /\ tail[l] \notin alloc'
                   /\ tail'[l] # tail[l]
                   /\ len'[l] = len[l] - 1
            /\ (len[l] = 1 /\ op'.arg[1] = 0) =>
                   /\ op'.ret # None
                   /\ head'[l] = NULL
                   /\ tail'[l] = NULL
                   /\ len'[l] = 0
                   /\ tail[l] \notin alloc'

\* C26: remove(len-1) on a list of two or more nodes leaves tail on the node
\* formerly at position len-2, whose next is none; remove(0) on a list of one
\* node leaves head and tail none and len 0; in both cases tail does not
\* refer to the released node.
C26_RemoveTailEdges == [][C26_Step]_vars

\* C26 witness: the last of three nodes has been removed and tail is on the
\* second, which ends the chain.
C26_Witness ==
    /\ op.name = "remove"
    /\ op.arg = <<2>>
    /\ op.ret # None
    /\ len[op.list] = 2
    /\ tail[op.list] = Chain(St, op.list)[2]
    /\ mem[tail[op.list]].next = NULL

\* C27: on every list, remove(0) and pop_front() return the same result (None
\* on an empty list) and leave the same head, tail, len, node links, allocated
\* nodes and number of released nodes.
C27_RemoveZeroIsPop ==
    \A l \in Live :
        LET r == remove(St, l, 0)
            p == pop_front(St, l)
        IN  /\ r.ret = p.ret
            /\ r.head = p.head
            /\ r.tail = p.tail
            /\ r.len = p.len
            /\ r.mem = p.mem
            /\ r.alloc = p.alloc
            /\ r.freed = p.freed
            /\ r.fault = p.fault

\* C27 witness: remove(0) has returned the first of three elements, and from
\* the state it left remove(0) and pop_front() again agree on the next one.
C27_Witness ==
    /\ op.name = "remove"
    /\ op.arg = <<0>>
    /\ op.ret # None
    /\ len[op.list] = 2
    /\ remove(St, op.list, 0).ret = pop_front(St, op.list).ret
    /\ remove(St, op.list, 0).ret = Some(Vals(St, op.list)[1])

\* The values an iterator with cursor p has still to yield.
ValsFrom(s, p) ==
    LET c == ChainFrom(s, p, MaxNodes + 1)
    IN  [k \in 1..Len(c) |-> s.mem[c[k]].value]

Map(f, q) == [k \in 1..Len(q) |-> f[q[k]]]

Readers == {i \in Iters : its[i].kind = "iter"}

C21_Inv ==
    /\ \A i \in Readers :
         LET l == its[i].list
         IN  /\ its[i].out \o ValsFrom(St, its[i].current) = Vals(St, l)
             /\ its[i].current = NULL =>
                    /\ its[i].out = Vals(St, l)
                    /\ Len(its[i].out) = len[l]
    /\ \A l \in Live :
         /\ iter(St, l).ret = Vals(St, l)
         /\ Len(iter(St, l).ret) = len[l]

C21_Step ==
    \A i \in Iters :
        /\ (op'.name = "iter" /\ op'.arg = <<i>>) =>
               /\ its'[i].current = head[op'.list]
               /\ its'[i].out = <<>>
               /\ \A j \in Iters \ {i} : its'[j] = its[j]
               /\ UNCHANGED <<mem, alloc, head, tail, len, kind, fault>>
        /\ (op'.name = "next" /\ op'.arg = <<i>>) =>
               /\ \A j \in Iters \ {i} : its'[j] = its[j]
               /\ op'.ret = None <=> Len(its[i].out) = len[op'.list]
               /\ UNCHANGED <<mem, alloc, head, tail, len, kind, fault>>

\* C21: a read-only iteration yields exactly len() elements in head-to-tail
\* order and changes nothing of the list; every iter() starts at head; when
\* several read-only iterations over one list are advanced in any
\* interleaving, each yields the full head-to-tail sequence on its own.
C21_SharedIteration == []C21_Inv /\ [][C21_Step]_vars

\* C21 witness: two read-only iterations over one list of three elements,
\* one has yielded all three, the other only the first.
C21_Witness ==
    /\ its["i"].kind = "iter"
    /\ its["j"].kind = "iter"
    /\ its["i"].list = its["j"].list
    /\ its["i"].current = NULL
    /\ Len(its["i"].out) = 3
    /\ its["i"].out = Vals(St, its["i"].list)
    /\ Len(its["j"].out) = 1
    /\ its["i"].out[1] # its["i"].out[2]

Writers == {i \in Iters : its[i].kind = "iter_mut"}

C22_Inv ==
    \A i \in Writers :
        LET l == its[i].list
            it == its[i]
        IN  /\ Map(it.f, it.out) \o ValsFrom(St, it.current) = Vals(St, l)
            /\ Len(it.out) + Len(ChainFrom(St, it.current, MaxNodes + 1)) = len[l]
            /\ it.current = NULL =>
                   /\ Vals(St, l) = Map(it.f, it.out)
                   /\ Len(it.out) = len[l]
                   /\ len[l] > 0 =>
                          /\ pop_front(St, l).ret = Some(it.f[it.out[1]])
                          /\ Vals(pop_front(St, l), l) = Map(it.f, Tail(it.out))

C22_Step ==
    \A i \in Iters :
        (op'.name = "next_mut" /\ op'.arg = <<i>>) =>
            /\ UNCHANGED <<alloc, head, tail, len, kind, fault>>
            /\ \A p \in Addr : mem'[p].next = mem[p].next
            /\ its[i].current = NULL => (op'.ret = None /\ mem' = mem)
            /\ its[i].current # NULL =>
                   /\ op'.ret = Some(mem[its[i].current].value)
                   /\ mem' = [mem EXCEPT ![its[i].current].value =
                                             its[i].f[mem[its[i].current].value]]
                   /\ its'[i].out = Append(its[i].out, mem[its[i].current].value)
                   /\ its[i].out \o ValsFrom(St, its[i].current)
                          = its'[i].out \o (ValsFrom(St, its[i].current))'


\* C22: a mutable iteration visits every element once in head-to-tail order;
\* overwriting each visited element with f(element) leaves the former sequence
\* mapped by f, with len, head, tail and every next pointer unchanged; a
\* pop_front after it returns f of the former first element and leaves the
\* rest mapped by f.
C22_MutableIteration == []C22_Inv /\ [][C22_Step]_vars

\* C22 witness: a mutable iteration over three elements has come to its end
\* with a function that exchanges the two values, and the list holds the
\* exchanged values.
C22_Witness ==
    /\ its["i"].kind = "iter_mut"
    /\ its["i"].current = NULL
    /\ Len(its["i"].out) = 3
    /\ its["i"].out = <<"x", "y", "y">>
    /\ Vals(St, its["i"].list) = <<"y", "x", "x">>
    /\ op.name = "next_mut"

\* The iterators that borrow list l.
Borrowers(l) == {i \in Iters : its[i].kind \in {"iter", "iter_mut"} /\ its[i].list = l}

Mutating ==
    {"from", "push_front", "push_back", "pop_front", "remove", "reverse", "append",
     "clear", "drop", "iter_mut"}

C25_Inv ==
    /\ \A l \in Chains : \A i \in Borrowers(l) :
         /\ kind[l] = "list"
         /\ its[i].current \in ChainSet(St, l) \cup {NULL}
         /\ its[i].current \in alloc \cup {NULL}
         /\ its[i].kind = "iter_mut" => Borrowers(l) = {i}
    /\ "use_after_free" \notin fault

C25_Step ==
    /\ op'.name \in Mutating => Borrowers(op'.list) = {}
    /\ op'.name = "append" => Borrowers(op'.arg[1]) = {}
    /\ op'.name = "next_mut" => Borrowers(op'.list) = {op'.arg[1]}
    /\ alloc' # alloc => \A i \in Iters : its[i].kind = "none"
                                            \/ its[i].list # op'.list
    /\ \A i \in Iters :
         its[i].current # NULL /\ its[i].current \notin alloc' => its[i].current \notin alloc

Consumers == {i \in Iters : its[i].kind = "into_iter"}

\* k calls of next() on a consuming iteration.
RECURSIVE NextTimes(_, _)
NextTimes(r, k) ==
    IF k = 0 THEN r ELSE NextTimes(IntoIter_next(r.s, r.it), k - 1)

C23_Inv ==
    \A i \in Consumers :
        LET l == its[i].list
            r == NextTimes([s |-> St, it |-> its[i]], len[l])
            more == IntoIter_next(r.s, r.it)
        IN  /\ r.it.out = its[i].out \o Vals(St, l)
            /\ r.s.head[l] = NULL
            /\ r.s.tail[l] = NULL
            /\ r.s.len[l] = 0
            /\ r.s.alloc = alloc \ ChainSet(St, l)
            /\ r.s.freed = len[l]
            /\ r.s.fault = fault
            /\ more.s.ret = None
            /\ more.it = r.it
            /\ more.s.mem = r.s.mem /\ more.s.alloc = r.s.alloc
            /\ more.s.head = r.s.head /\ more.s.tail = r.s.tail /\ more.s.len = r.s.len

C23_Step ==
    \A i \in Iters : \A l \in Lists :
        (op'.name = "into_next" /\ op'.arg = <<i>> /\ op'.list = l) =>
            /\ len[l] > 0 =>
                   /\ op'.ret = Some(Vals(St, l)[1])
                   /\ its'[i].out = Append(its[i].out, Vals(St, l)[1])
                   /\ Chain(St, l)' = Tail(Chain(St, l))
                   /\ alloc' = alloc \ {head[l]}
                   /\ len'[l] = len[l] - 1
            /\ len[l] = 0 =>
                   /\ op'.ret = None
                   /\ head[l] = NULL /\ tail[l] = NULL /\ alloc = {}
                   /\ its'[i] = its[i]
                   /\ UNCHANGED <<mem, alloc, head, tail, len, kind, fault>>

\* C23: a consuming iteration yields the elements in head-to-tail order by
\* repeated pop_front; after len items the list it holds is empty (head none,
\* tail none, len 0), every node has been released, and every further next()
\* returns None.
C23_ConsumingIteration == []C23_Inv /\ [][C23_Step]_vars

\* C23 witness: a consuming iteration that has yielded three items has been
\* asked for one more and returned None; nothing is allocated.
C23_Witness ==
    /\ op.name = "into_next"
    /\ op.ret = None
    /\ Len(its[op.arg[1]].out) = 3
    /\ its[op.arg[1]].out[1] # its[op.arg[1]].out[2]
    /\ len[op.list] = 0
    /\ head[op.list] = NULL
    /\ alloc = {}

C29_Inv ==
    \A i \in Consumers :
        LET l == its[i].list
            r == IntoIter_drop(St, its[i])
        IN  /\ r.s.alloc = alloc \ ChainSet(St, l)
            /\ r.s.freed = len[l]
            /\ "double_free" \notin r.s.fault
            /\ r.s.fault = fault
            /\ \A p \in Addr \ ChainSet(St, l) : r.s.mem[p] = mem[p]

C29_Step ==
    \A l \in Lists :
        (op'.name = "drop_into_iter" /\ op'.list = l) =>
            /\ Cardinality(ChainSet(St, l)) = len[l]
            /\ op'.freed = len[l]
            /\ alloc' = alloc \ ChainSet(St, l)
            /\ fault' = {}
            /\ kind'[l] = "none"

\* C29: when a consuming iteration is abandoned after k < len items, the drop
\* of the iterator releases each of the remaining nodes once and none of the
\* k nodes released before; what was yielded is not touched.
C29_AbandonedIteration == []C29_Inv /\ [][C29_Step]_vars

\* C29 witness: a consuming iteration was dropped after one item of three;
\* the drop released the other two nodes and nothing is allocated.
C29_Witness ==
    /\ op.name = "drop_into_iter"
    /\ op.arg[2] = 1
    /\ op.freed = 2
    /\ alloc = {}
    /\ fault = {}

\* The number of times each loop of the code goes round, counted as the code
\* runs it and cut off when it has gone round more than MaxNodes times: a
\* count above MaxNodes stands for a loop that does not stop.

\* while let Some(node) = current { current = (*node).next }: Debug::fmt.
RECURSIVE fmt_steps(_, _, _)
fmt_steps(s, current, n) ==
    IF current = NULL \/ n > MaxNodes
    THEN n
    ELSE fmt_steps(s, s.mem[current].next, n + 1)

\* The while loop of reverse.
RECURSIVE reverse_steps(_, _, _, _)
reverse_steps(s, prev, current, n) ==
    IF current = NULL \/ n > MaxNodes
    THEN n
    ELSE reverse_steps(store_next(s, current, prev), current, s.mem[current].next, n + 1)

\* The while loop of remove.
RECURSIVE remove_steps(_, _, _, _)
remove_steps(s, i, index, current) ==
    IF i < index /\ current # NULL /\ i <= MaxNodes
    THEN remove_steps(s, i + 1, index, s.mem[current].next)
    ELSE i

\* while self.pop_front().is_some() {}: clear, and with it drop.
RECURSIVE clear_steps(_, _, _)
clear_steps(s, l, n) ==
    LET s1 == pop_front(s, l)
    IN  IF s1.ret = None \/ n > MaxNodes THEN n ELSE clear_steps(s1, l, n + 1)

\* for x in list.iter() / for x in list.iter_mut() / for x in list (IntoIter);
\* Display::fmt is the first of them.  r is the state and the iterator.
RECURSIVE for_steps(_, _)
for_steps(r, n) ==
    LET r1 == IF r.it.kind = "iter" THEN Iter_next(r.s, r.it)
              ELSE IF r.it.kind = "iter_mut" THEN IterMut_next(r.s, r.it)
              ELSE IntoIter_next(r.s, r.it)
    IN  IF r1.s.ret = None \/ n > MaxNodes THEN n ELSE for_steps(r1, n + 1)

\* C24: on every reachable list every loop stops after at most len rounds:
\* the loops of reverse, remove (for every index), clear and drop, Debug and
\* Display, and the read-only, the mutable and the consuming iteration; the
\* chain from head has no node twice.
C24_Termination ==
    \A l \in Live :
        /\ Distinct(Chain(St, l))
        /\ fmt_steps(St, head[l], 0) <= len[l]
        /\ reverse_steps(St, NULL, head[l], 0) <= len[l]
        /\ \A index \in Indices : remove_steps(St, 0, index, head[l]) <= len[l]
        /\ clear_steps(St, l, 0) <= len[l]
        /\ for_steps([s |-> St, it |-> Iter_new(St, l)], 0) <= len[l]
        /\ \A f \in Fs : for_steps([s |-> St, it |-> IterMut_new(St, l, f)], 0) <= len[l]
        /\ for_steps(IntoIter_new(St, l), 0) <= len[l]
        /\ "diverge" \notin iter(St, l).fault

\* C24 witness: reverse has run on a list of three nodes, and from the state
\* it left each loop goes round three times.
C24_Witness ==
    /\ op.name = "reverse"
    /\ len[op.list] = 3
    /\ fmt_steps(St, head[op.list], 0) = 3
    /\ reverse_steps(St, NULL, head[op.list], 0) = 3
    /\ remove_steps(St, 0, 2, head[op.list]) = 2
    /\ clear_steps(St, op.list, 0) = 3
    /\ for_steps(IntoIter_new(St, op.list), 0) = 3

\* How many times value v is held in the live lists.
Held(v) ==
    LET n == [l \in Lists |->
                IF kind[l] = "list"
                THEN LET q == Vals(St, l)
                     IN  Cardinality({k \in 1..Len(q) : q[k] = v})
                ELSE 0]
    IN  Sum(n, Lists)

\* C28: after every sequence of push_front, push_back, pop_front, remove,
\* reverse and append on the lists, each value has been inserted as many
\* times as it is held in the live lists plus as it was returned by
\* pop_front and remove: no value is lost and none appears twice.
C28_ValuesConserved ==
    \A v \in Values : inserted[v] = Held(v) + returned[v]

\* C28 witness: remove has returned a value; of the x put in three times, one
\* is held and two were returned, with both lists alive.
C28_Witness ==
    /\ op.name = "remove"
    /\ op.ret = Some("x")
    /\ inserted["x"] = 3
    /\ returned["x"] = 2
    /\ Held("x") = 1
    /\ inserted["y"] = 1
    /\ Held("y") = 1
    /\ \A l \in Lists : kind[l] = "list"

C30_Inv ==
    /\ safe # None <=> kind[Built] = "list"
    /\ safe # None =>
           /\ safe[1].len = len[Built]
           /\ safe_is_empty(safe[1]) <=> is_empty(St, Built)
           /\ safe_iter(safe[1]) = iter(St, Built).ret
           /\ safe_iter(safe[1]) = Vals(St, Built)
           /\ safe_into_iter_collect(safe[1]) = into_iter_collect(St, Built).ret
    /\ op.name # "init" => op.ret[1] = op.ret[2]

\* C30: for every sequence of new/from, push_front, push_back, pop_front,
\* peek_front, writes through peek_front_mut or a mutable iteration, and
\* clear, made on a SafeList and on an UnsafeList alike, every call returns
\* the same on both and both have the same len(), is_empty() and
\* head-to-tail sequence.
C30_SafeUnsafeEquivalent == []C30_Inv

\* C30 witness: pop_front has returned the same value on both lists and both
\* hold the same two unlike elements.
C30_Witness ==
    /\ op.name = "pop_front"
    /\ op.ret[1] # None
    /\ op.ret[1] = op.ret[2]
    /\ safe[1].len = 2
    /\ safe_iter(safe[1]) = Vals(St, Built)
    /\ Vals(St, Built)[1] # Vals(St, Built)[2]

====
